---- MODULE Spec2Model ----
(***************************************************************************)
(* FirewallAnalyzer (src/FirewallParser.py): streaming frequency counting   *)
(* of firewall-log fields and the condensed rule suggester built on it.     *)
(*                                                                          *)
(* Representation.  Keys of the frequency tables are the strings the code   *)
(* handles.  TLC cannot take a string apart, so the few string operations   *)
(* the code performs (str.split, str.strip, '=' in field, ipaddress         *)
(* parsing, string comparison) are given by tables over the bounded         *)
(* universe of texts below; everything else (bit arithmetic of networks,    *)
(* collapsing, widening, counting, merging, thresholds) is computed.        *)
(* A pandas Series is a sequence of [k, c] entries in index order.          *)
(* Fractions are compared exactly: a / b >= p / 100 is 100 * a >= p * b.    *)
(***************************************************************************)
EXTENDS Integers, Sequences, FiniteSets, TLC

(* ------------------------------ bounds --------------------------------- *)

\* Number of csv rows one analyzer reads, over all its consume_csv calls.
MaxRows == 3

\* Largest chunksize argument of consume_csv that is tried (1..MaxChunk).
MaxChunk == 2

\* consume_csv is called at most this many times on one analyzer.
MaxCalls == 2

(* ------------------------- generic helpers ----------------------------- *)

Range(s) == {s[i] : i \in 1..Len(s)}

Min(a, b) == IF a <= b THEN a ELSE b

\* The element of a one-element set.
Only(S) == CHOOSE e \in S : TRUE

\* s[:n] of a Python list / pandas Index, n >= 0.
Take(s, n) == SubSeq(s, 1, Min(n, Len(s)))

RECURSIVE Pow2(_)
Pow2(n) == IF n = 0 THEN 1 ELSE 2 * Pow2(n - 1)

RECURSIVE SumC(_)
\* Series.sum(): the sum of the counts of a table.
SumC(s) == IF s = <<>> THEN 0 ELSE s[1].c + SumC(Tail(s))

Keys(s) == [i \in 1..Len(s) |-> s[i].k]

\* The count stored under key k (0 if k is not in the index).
CountOf(s, k) == IF \E i \in 1..Len(s) : s[i].k = k
                 THEN (CHOOSE e \in Range(s) : e.k = k).c
                 ELSE 0

\* A table as the set of its (key, count) pairs, index order forgotten.
Pairs(s) == {<<s[i].k, s[i].c>> : i \in 1..Len(s)}

(* ---------------------- the universe of texts -------------------------- *)

\* Every text that can be a table key, in Python's str order (code point
\* order), which is the order pandas sorts an object index in.
KeyOrder == << "", "10.0.0.0/16", "10.0.0.5", "10.0.0.9", "10.0.16.1",
               "2001:db8::", "22", "443", "80", "::1", "nan" >>

StrRank(k) == CHOOSE i \in 1..Len(KeyOrder) : KeyOrder[i] = k

\* a < b on Python str.
StrLess(a, b) == StrRank(a) < StrRank(b)

\* ip.split('.') of _ip_to24, per text.
SplitDot(ip) ==
    CASE ip = "10.0.0.5"    -> << "10", "0", "0", "5" >>
      [] ip = "10.0.0.9"    -> << "10", "0", "0", "9" >>
      [] ip = "10.0.16.1"   -> << "10", "0", "16", "1" >>
      [] ip = "10.0.0.0/16" -> << "10", "0", "0", "0/16" >>
      [] OTHER              -> << ip >>

\* What ipaddress reads in a text: the address family (0: not an address),
\* the address as its groups (IPv4: 4 octets, IPv6: 8 hextets) and the
\* prefix length written after '/' (-1: the text has no '/').
ReadAddress(ip) ==
    CASE ip = "10.0.0.5"    -> [ver |-> 4, grp |-> << 10, 0, 0, 5 >>, plen |-> -1]
      [] ip = "10.0.0.9"    -> [ver |-> 4, grp |-> << 10, 0, 0, 9 >>, plen |-> -1]
      [] ip = "10.0.16.1"   -> [ver |-> 4, grp |-> << 10, 0, 16, 1 >>, plen |-> -1]
      [] ip = "10.0.0.0/16" -> [ver |-> 4, grp |-> << 10, 0, 0, 0 >>, plen |-> 16]
      [] ip = "2001:db8::"  -> [ver |-> 6, grp |-> << 8193, 3512, 0, 0, 0, 0, 0, 0 >>,
                                plen |-> -1]
      [] ip = "::1"         -> [ver |-> 6, grp |-> << 0, 0, 0, 0, 0, 0, 0, 1 >>,
                                plen |-> -1]
      [] OTHER              -> [ver |-> 0, grp |-> << >>, plen |-> -1]

(* --------------------------- ipaddress --------------------------------- *)

\* An address is the list of its groups: 4 octets (IPv4), 8 hextets (IPv6).
\* Bits of a group.
GroupWidth(ver) == IF ver = 4 THEN 8 ELSE 16

\* Address width in bits of a family: 32 for IPv4, 128 for IPv6.
MaxPrefixLen(ver) == IF ver = 4 THEN 32 ELSE 128

\* Number of host bits of group j (1-based) under a prefix of plen bits.
HostBitsIn(j, w, plen) ==
    IF j * w <= plen THEN 0
    ELSE IF (j - 1) * w >= plen THEN w
    ELSE j * w - plen

\* address & netmask: the host bits cleared.
NetworkAddress(grp, w, plen) ==
    [j \in 1..Len(grp) |-> grp[j] - (grp[j] % Pow2(HostBitsIn(j, w, plen)))]

\* address | hostmask: the host bits set.
BroadcastAddress(grp, w, plen) ==
    [j \in 1..Len(grp) |-> grp[j] - (grp[j] % Pow2(HostBitsIn(j, w, plen)))
                                  + (Pow2(HostBitsIn(j, w, plen)) - 1)]

\* Results of _supernet that are not a network.
None == [tag |-> "None"]
TypeError == [tag |-> "TypeError"]
ValueError == [tag |-> "ValueError"]
IndexError == [tag |-> "IndexError"]

\* An IPv4Network / IPv6Network: family, network address and prefix length;
\* str() of two networks is equal iff the three are.
Net(ver, addr, plen) == [tag |-> "net", ver |-> ver, addr |-> addr, plen |-> plen]

prefixlen(n) == n.plen

network_address(n) == n.addr

broadcast_address(n) == BroadcastAddress(n.addr, GroupWidth(n.ver), n.plen)

\* _ip.ip_network(text), strict: ValueError if the text is no address, if the
\* prefix is longer than the address, or if a host bit is set.
IpNetworkStrict(ver, grp, plen) ==
    IF ver = 0 \/ plen < 0 \/ plen > MaxPrefixLen(ver) THEN ValueError
    ELSE IF NetworkAddress(grp, GroupWidth(ver), plen) # grp THEN ValueError
    ELSE Net(ver, grp, plen)

\* Line 92: _ip.ip_network(ip) if '/' in ip else _ip.ip_network(ip + '/32').
IpNetworkOfKey(ip) ==
    Only({ IpNetworkStrict(r.ver, r.grp, IF r.plen >= 0 THEN r.plen ELSE 32)
           : r \in {ReadAddress(ip)} })

\* net.supernet(): one bit shorter; the /0 network is its own supernet.
SupernetOf(n) ==
    IF prefixlen(n) = 0 THEN n
    ELSE Net(n.ver, NetworkAddress(n.addr, GroupWidth(n.ver), n.plen - 1), n.plen - 1)

\* x < y for two addresses of one family, as unsigned integers.
AddrLess(x, y) ==
    \E j \in 1..Len(x) : /\ x[j] < y[j]
                         /\ \A h \in 1..(j - 1) : x[h] = y[h]

AddrLeq(x, y) == x = y \/ AddrLess(x, y)

\* _BaseNetwork.__lt__: by network address, then by netmask.
NetLess(a, b) ==
    IF network_address(a) # network_address(b)
    THEN AddrLess(network_address(a), network_address(b))
    ELSE prefixlen(a) < prefixlen(b)

\* a.subnet_of(b) for networks of one family.
SubnetOf(a, b) ==
    /\ AddrLeq(network_address(b), network_address(a))
    /\ AddrLeq(broadcast_address(a), broadcast_address(b))

RECURSIVE SortedNets(_)
\* sorted(subnets.values()).
SortedNets(S) ==
    IF S = {} THEN << >>
    ELSE LET m == CHOOSE x \in S : \A y \in S \ {x} : NetLess(x, y)
         IN  << m >> \o SortedNets(S \ {m})

RECURSIVE MergeLoop(_, _)
\* _collapse_addresses_internal, first loop.  subnets is the dict, a set of
\* [key, val] entries with one entry per key; to_merge is popped from its end.
MergeLoop(to_merge, subnets) ==
    IF to_merge = << >> THEN subnets
    ELSE LET net == to_merge[Len(to_merge)]
             rest == SubSeq(to_merge, 1, Len(to_merge) - 1)
             sup == SupernetOf(net)
             hit == {e \in subnets : e.key = sup}
         IN  IF hit = {} THEN MergeLoop(rest, subnets \cup {[key |-> sup, val |-> net]})
             ELSE IF (CHOOSE e \in hit : TRUE).val # net
                  THEN MergeLoop(rest \o << sup >>, subnets \ hit)
                  ELSE MergeLoop(rest, subnets)

RECURSIVE SkipSubsumed(_, _)
\* _collapse_addresses_internal, second loop: drop a network whose broadcast
\* address does not pass the last one yielded.
SkipSubsumed(nets, last) ==
    IF nets = << >> THEN << >>
    ELSE IF last.tag = "net" /\ AddrLeq(broadcast_address(nets[1]), broadcast_address(last))
         THEN SkipSubsumed(Tail(nets), last)
         ELSE << nets[1] >> \o SkipSubsumed(Tail(nets), nets[1])

\* ipaddress.collapse_addresses(nets): TypeError when two neighbours of the
\* list are of different families, else the collapsed list.
CollapseAddresses(nets) ==
    IF \E i \in 1..(Len(nets) - 1) : nets[i].ver # nets[i + 1].ver THEN TypeError
    ELSE [tag |-> "ok",
          nets |-> SkipSubsumed(SortedNets({e.val : e \in MergeLoop(nets, {})}), None)]

RECURSIVE Widen(_, _)
\* Lines 99-100: while not net.subnet_of(sup): sup = sup.supernet(...).
Widen(sup, net) ==
    IF SubnetOf(net, sup) THEN sup ELSE Widen(SupernetOf(sup), net)

RECURSIVE WidenAll(_, _)
\* Lines 98-100: the for loop over collapsed[1:].
WidenAll(sup, nets) ==
    IF nets = << >> THEN sup ELSE WidenAll(Widen(sup, nets[1]), Tail(nets))

\* FirewallAnalyzer._supernet: a network, None (a ValueError was caught),
\* TypeError (raised by collapse_addresses and not caught) or IndexError
\* (collapsed[0] of an empty list, not caught).
Supernet(ip_list) ==
    LET nets == [i \in 1..Len(ip_list) |-> IpNetworkOfKey(ip_list[i])]
    IN  IF \E i \in 1..Len(nets) : nets[i].tag = "ValueError" THEN None
        ELSE LET r == CollapseAddresses(nets)
                 collapsed == r.nets
             IN  IF r.tag = "TypeError" THEN TypeError
                 ELSE IF collapsed = << >> THEN IndexError
                 ELSE IF Len(collapsed) = 1 THEN collapsed[1]
                 ELSE WidenAll(collapsed[1], Tail(collapsed))

(* ------------------------- pandas Series ------------------------------- *)

RECURSIVE InsertDesc(_, _)
\* e placed behind every entry whose count is not smaller: one step of a
\* stable sort by descending count.
InsertDesc(s, e) ==
    IF s = << >> THEN << e >>
    ELSE IF s[1].c >= e.c THEN << s[1] >> \o InsertDesc(Tail(s), e)
    ELSE << e >> \o s

RECURSIVE SortDescFrom(_, _)
SortDescFrom(acc, s) ==
    IF s = << >> THEN acc ELSE SortDescFrom(InsertDesc(acc, s[1]), Tail(s))

\* Series.sort_values(ascending=False), and the order of value_counts(),
\* nlargest() and sorted(..., reverse=True): descending count, entries of
\* equal count in their earlier order.
SortDesc(s) == SortDescFrom(<< >>, s)

RECURSIVE Uniq(_, _)
\* The distinct values of a column in order of first appearance.
Uniq(col, seen) ==
    IF col = << >> THEN << >>
    ELSE IF col[1] \in seen THEN Uniq(Tail(col), seen)
    ELSE << col[1] >> \o Uniq(Tail(col), seen \cup {col[1]})

\* Series.value_counts() of a column of strings.
ValueCounts(col) ==
    LET u == Uniq(col, {})
    IN  SortDesc([j \in 1..Len(u) |->
                    [k |-> u[j],
                     c |-> Cardinality({i \in 1..Len(col) : col[i] = u[j]})]])

RECURSIVE SortKeys(_)
\* The sorted union index of two differing indexes.
SortKeys(S) ==
    IF S = {} THEN << >>
    ELSE LET m == CHOOSE a \in S : \A b \in S \ {a} : StrLess(a, b)
         IN  << m >> \o SortKeys(S \ {m})

\* store.add(other, fill_value=0), lines 76-77.  Equal indexes are added in
\* place; an empty side leaves the index of the other; otherwise the result
\* is indexed by the sorted union of the two indexes.
SeriesAdd(store, other) ==
    IF Keys(store) = Keys(other)
    THEN [i \in 1..Len(store) |-> [k |-> store[i].k, c |-> store[i].c + other[i].c]]
    ELSE IF store = << >> THEN other
    ELSE IF other = << >> THEN store
    ELSE LET u == SortKeys(Range(Keys(store)) \cup Range(Keys(other)))
         IN  [i \in 1..Len(u) |->
                [k |-> u[i], c |-> CountOf(store, u[i]) + CountOf(other, u[i])]]

(* ------------------------- csv rows and records ------------------------ *)

\* The four canonical columns, in the order _update_counts visits them.
Columns == << "srcip", "dstip", "srcport", "dstport" >>

\* Rows of a file whose header names the four columns (read with dtype=str,
\* na_filter=False: an empty cell is the empty string).
DirectRows ==
    { [srcip |-> "10.0.0.5",   dstip |-> "10.0.0.5",    srcport |-> "22",  dstport |-> "443"],
      [srcip |-> "10.0.16.1",  dstip |-> "10.0.16.1",   srcport |-> "80",  dstport |-> "80"],
      [srcip |-> "2001:db8::", dstip |-> "10.0.0.0/16", srcport |-> "443", dstport |-> "80"],
      [srcip |-> "::1",        dstip |-> "",            srcport |-> "",    dstport |-> "22"],
      [srcip |-> "",           dstip |-> "10.0.0.9",    srcport |-> "22",  dstport |-> ""],
      [srcip |-> "10.0.0.0/16", dstip |-> "10.0.0.9",   srcport |-> "22",  dstport |-> "443"] }

\* Rows of a file of key=value cells, as csv.reader yields them.
FallbackRows ==
    { << "srcip=10.0.0.5", "dstip=\"10.0.0.9\"", "srcport=22", "dstport=443" >>,
      << "srcip=10.0.0.5" >>,
      << "action=deny" >>,
      << "garbage" >>,
      << >> }

\* '=' in field.
HasEq(field) == field # "garbage"

\* k.strip() of k, v = field.split('=', 1).
FieldKey(field) ==
    CASE field = "srcip=10.0.0.5"       -> "srcip"
      [] field = "dstip=\"10.0.0.9\""   -> "dstip"
      [] field = "srcport=22"           -> "srcport"
      [] field = "dstport=443"          -> "dstport"
      [] field = "action=deny"          -> "action"

\* v.strip('" ') of k, v = field.split('=', 1).
FieldValue(field) ==
    CASE field = "srcip=10.0.0.5"       -> "10.0.0.5"
      [] field = "dstip=\"10.0.0.9\""   -> "10.0.0.9"
      [] field = "srcport=22"           -> "22"
      [] field = "dstport=443"          -> "443"
      [] field = "action=deny"          -> "deny"

RECURSIVE RowToDictFrom(_, _)
RowToDictFrom(rec, row) ==
    IF row = << >> THEN rec
    ELSE IF HasEq(row[1])
         THEN RowToDictFrom([x \in DOMAIN rec \cup {FieldKey(row[1])} |->
                               IF x = FieldKey(row[1]) THEN FieldValue(row[1])
                               ELSE rec[x]],
                            Tail(row))
         ELSE RowToDictFrom(rec, Tail(row))

\* The empty dict.
EmptyRec == [x \in {} |-> ""]

\* FirewallAnalyzer._row_to_dict.
RowToDict(row) == RowToDictFrom(EmptyRec, row)

\* pd.DataFrame(batch) of a list of dicts, and a chunk of read_csv: the
\* columns are the keys seen in the batch; a key a record lacks is NaN there.
DataFrame(batch) ==
    [columns |-> UNION {DOMAIN batch[i] : i \in 1..Len(batch)}, recs |-> batch]

RECURSIVE ColumnAsStr(_, _, _)
\* df[col].astype(str) as value_counts() sees it.  A NaN cell becomes the
\* text 'nan' where astype(str) renders missing values (pandas before 3.0);
\* where it keeps them missing (pandas 3), value_counts() drops the cell.
ColumnAsStr(recs, col, na_text) ==
    IF recs = << >> THEN << >>
    ELSE (IF col \in DOMAIN recs[1] THEN << recs[1][col] >>
          ELSE IF na_text THEN << "nan" >> ELSE << >>)
         \o ColumnAsStr(Tail(recs), col, na_text)

\* The four stores of an analyzer, by column.
EmptyTables == [col \in Range(Columns) |-> << >>]

\* FirewallAnalyzer._update_counts.
UpdateCounts(tb, df, na_text) ==
    [col \in Range(Columns) |->
        IF col \in df.columns
        THEN SeriesAdd(tb[col], ValueCounts(ColumnAsStr(df.recs, col, na_text)))
        ELSE tb[col]]

(* ------------------------ threshold and network ------------------------ *)

\* A coverage fraction num / den as the pair << num, den >>, den > 0.
Zero == << 0, 1 >>

\* a / b >= p / 100 (b > 0), the comparisons of lines 111, 141 and 172.
ShareAtLeast(a, b, p) == 100 * a >= p * b

RECURSIVE ThresholdLoop(_, _, _, _, _)
\* Lines 109-113: the loop runs over s.items() in index order and breaks at
\* the first entry with cum / total >= t.
ThresholdLoop(s, t, total, i, cum) ==
    LET now == cum + s[i].c
    IN  IF ShareAtLeast(now, total, t) \/ i = Len(s)
        THEN [elems |-> Keys(SubSeq(s, 1, i)), cov |-> << now, total >>]
        ELSE ThresholdLoop(s, t, total, i + 1, now)

\* FirewallAnalyzer._threshold_subset; t in percent.
ThresholdSubset(s, t) ==
    IF s = << >> THEN [elems |-> << >>, cov |-> Zero]
    ELSE ThresholdLoop(s, t, SumC(s), 1, 0)

\* FirewallAnalyzer._best_network: (net, cov), or the TypeError of _supernet.
\* ips are the keys _threshold_subset selected.
BestNetwork(s, thresh, max_pref) ==
    LET r == ThresholdSubset(s, thresh)
        net == IF r.elems # << >> THEN Supernet(r.elems) ELSE None
    IN  IF net.tag = "TypeError" THEN [tag |-> "TypeError", ips |-> r.elems]
        ELSE [tag |-> "ok",
              net |-> IF net.tag = "net" /\ prefixlen(net) >= max_pref
                      THEN net ELSE None,
              cov |-> r.cov,
              ips |-> r.elems]

\* FirewallAnalyzer._ip_to24: '.'.join(o[:3] + ['0']) + '/24', kept as the
\* list that is joined (no part holds a '.', so the join is one to one).
IpTo24(ip) == Take(SplitDot(ip), 3) \o << "0" >>

\* The q for which format((2q + 1) / 200, '.0%') prints q + 1: the quotient
\* is a double, so is its product with 100, and the product is above, below
\* or at q + 0.5 (then printed to even).  At 54 the product is
\* 54.50000000000001, at 57 it is 57.49999999999999.
HalfRoundsUp ==
    { 1, 3, 5, 7, 9, 11, 13, 15, 17, 19, 21, 23, 25, 27, 29, 31, 33, 35, 37, 39,
      41, 43, 45, 47, 49, 51, 53, 54, 55, 59, 61, 63, 65, 67, 69, 71, 73, 75, 77,
      79, 81, 83, 85, 87, 89, 91, 93, 95, 97, 99 }

\* format(cum / total, '.0%') of lines 167-168: the nearest integer to the
\* percentage; when the share is q + 0.5 percent, what the doubles give.
Percent(cov) ==
    LET q == (100 * cov[1]) \div cov[2]
        r == (100 * cov[1]) % cov[2]
    IN  IF 2 * r < cov[2] THEN q
        ELSE IF 2 * r > cov[2] THEN q + 1
        ELSE IF q \in HalfRoundsUp THEN q + 1 ELSE q

(* --------------------------- rule_suggestions -------------------------- *)

\* Smallest prefix length of a suggested source network (line 133).
SrcMinPrefix == 21

\* Smallest prefix length of a suggested destination network (line 161).
DstMinPrefix == 20

\* Destination ports seen fewer times than this are rare (line 176).
RareBelow == 5

\* Number of rare ports the anomaly note lists (line 179).
RareShown == 10

\* Number of addresses the source fallback lists (line 136).
TopsShown == 3

RECURSIVE ClustersFrom(_, _)
\* Lines 147-151: cluster_bytes and per_cluster, one entry per /24 key in
\* order of first insertion; members is the per-cluster Series.
ClustersFrom(acc, s) ==
    IF s = << >> THEN acc
    ELSE LET cidr == IpTo24(s[1].k)
             at == {j \in 1..Len(acc) : acc[j].cidr = cidr}
         IN  IF at = {}
             THEN ClustersFrom(Append(acc, [cidr |-> cidr, c |-> s[1].c,
                                            members |-> << s[1] >>]), Tail(s))
             ELSE LET j == CHOOSE j \in at : TRUE
                  IN  ClustersFrom([acc EXCEPT ![j].c = @ + s[1].c,
                                               ![j].members = Append(@, s[1])],
                                   Tail(s))

\* The source scope of a rule: the network, or the fallback list of line 136.
SrcScope(best) ==
    IF best.net.tag = "net" THEN [kind |-> "net", net |-> best.net]
    ELSE [kind |-> "list", shown |-> Take(best.ips, TopsShown),
          more |-> Len(best.ips) > TopsShown]

\* Lines 162-173, the body of the loop for a cluster cl whose best network
\* is known: skip it, or append its rule and decide whether to go on.
\* go |-> FALSE is the break of line 173.
EmitStep(cl, best, sug, covered, seen, head, total_dst) ==
    IF best.net.tag # "net" \/ best.net \in seen
    THEN [go |-> TRUE, sug |-> sug, covered |-> covered, seen |-> seen, emitted |-> FALSE]
    ELSE [go |-> ~ (\/ ShareAtLeast(covered + cl.c, total_dst, head.target_coverage)
                    \/ Len(sug) + 1 >= head.max_rules),
          sug |-> Append(sug, [kind |-> "rule", src |-> head.src, dst |-> best.net,
                               ports |-> head.ports,
                               src_cov |-> Percent(head.src_cov),
                               dst_cov |-> Percent(best.cov)]),
          covered |-> covered + cl.c,
          seen |-> seen \cup {best.net},
          emitted |-> TRUE]

RECURSIVE EmitLoop(_, _, _, _, _, _, _)
\* Lines 159-173.  clusters: what is left of clusters_sorted; sug: the rules
\* appended so far; seen: the networks emitted; visited: the clusters the
\* loop has looked at, with the traffic covered before each.  head fixes the
\* source scope, the ports and the arguments.  Returns the rules, or the
\* TypeError of _best_network.  (A value bound with \in {..} is computed once.)
EmitLoop(clusters, sug, covered, seen, visited, head, total_dst) ==
    IF clusters = << >> THEN [tag |-> "ok", sug |-> sug, visited |-> visited]
    ELSE Only({
        IF best.tag = "TypeError" THEN [tag |-> "TypeError"]
        ELSE Only({
            IF st.go
            THEN EmitLoop(Tail(clusters), st.sug, st.covered, st.seen,
                          Append(visited, [cidr |-> cl.cidr, c |-> cl.c,
                                           emitted |-> st.emitted,
                                           before |-> covered]),
                          head, total_dst)
            ELSE [tag |-> "ok", sug |-> st.sug,
                  visited |-> Append(visited, [cidr |-> cl.cidr, c |-> cl.c,
                                               emitted |-> st.emitted,
                                               before |-> covered])]
            : st \in {EmitStep(cl, best, sug, covered, seen, head, total_dst)} })
        : cl \in {clusters[1]},
          best \in {BestNetwork(clusters[1].members, head.ip_thresh, DstMinPrefix)} })

\* Lines 175-179: the anomaly note; the ellipsis mark is appended in every case.
AnomalyNote(dst_ports) ==
    LET rare == SelectSeq(dst_ports, LAMBDA e : e.c < RareBelow)
    IN  IF rare = << >> THEN << >>
        ELSE << [kind |-> "rare", ports |-> Take(Keys(rare), RareShown),
                 ellipsis |-> TRUE] >>

NoPortMessage == [kind |-> "message",
                  text |-> "No destination port exceeds the minimum share threshold."]

NoPatternMessage == [kind |-> "message", text |-> "No patterns met the thresholds."]

\* Lines 139-141: the dominant destination ports.
DominantPorts(dst_ports, p) ==
    Only({ Take(Keys(SelectSeq(port_series,
                   LAMBDA e : ShareAtLeast(e.c, port_total, p.min_port_share))),
                p.max_ports)
           : port_series \in {SortDesc(dst_ports)}, port_total \in {SumC(dst_ports)} })

\* Lines 146-181, once source scope and ports are known.
RuleSuggestionsFrom(tb, ip_thresh, p, best, ports) ==
    IF ports = << >>
    THEN [tag |-> "ok", suggestions |-> << NoPortMessage >>, p |-> p,
          src_ips |-> best.ips, src_cov |-> best.cov, src |-> SrcScope(best),
          ports |-> ports, visited |-> << >>]
    ELSE Only({
        IF loop.tag = "TypeError" THEN [tag |-> "TypeError"]
        ELSE [tag |-> "ok",
              suggestions |-> IF loop.sug \o AnomalyNote(tb["dstport"]) = << >>
                              THEN << NoPatternMessage >>
                              ELSE loop.sug \o AnomalyNote(tb["dstport"]),
              p |-> p, src_ips |-> best.ips, src_cov |-> best.cov,
              src |-> SrcScope(best), ports |-> ports, visited |-> loop.visited]
        : loop \in { EmitLoop(clusters_sorted, << >>, 0, {}, << >>, head,
                              SumC(tb["dstip"]))
                     : clusters_sorted \in {SortDesc(ClustersFrom(<< >>, tb["dstip"]))},
                       head \in {[src |-> SrcScope(best), src_cov |-> best.cov,
                                  ports |-> ports, ip_thresh |-> ip_thresh,
                                  max_rules |-> p.max_rules,
                                  target_coverage |-> p.target_coverage]} } })

\* FirewallAnalyzer.rule_suggestions on the stores tb.  p: the arguments
\* (shares in percent).  Returns the list, or the TypeError that escapes,
\* with the locals the properties below speak of.
RuleSuggestionsOf(tb, ip_thresh, p) ==
    Only({ IF best.tag = "TypeError" THEN [tag |-> "TypeError"]
           ELSE RuleSuggestionsFrom(tb, ip_thresh, p, best, ports)
           : best \in {BestNetwork(tb["srcip"], ip_thresh, SrcMinPrefix)},
             ports \in {DominantPorts(tb["dstport"], p)} })

\* FirewallAnalyzer.top_table: nlargest(top_n) of each store.
TopTableOf(tb, top_n) ==
    [col \in Range(Columns) |-> Take(SortDesc(tb[col]), top_n)]

(* ------------------------------ consume_csv ---------------------------- *)

\* Lines 55-62, one turn of the loop over csv.reader.  st holds the stores
\* (tb), the pending batch, the bad-row counter (bad) and the row number (i).
FallbackStep(st, row, chunk, na_text) ==
    Only({ [tb    |-> IF flush THEN UpdateCounts(st.tb, DataFrame(batch1), na_text)
                      ELSE st.tb,
            batch |-> IF flush THEN << >> ELSE batch1,
            bad   |-> IF rec # EmptyRec THEN st.bad ELSE st.bad + 1,
            i     |-> st.i + 1]
           : rec \in {RowToDict(row)},
             batch1 \in {IF RowToDict(row) # EmptyRec
                         THEN Append(st.batch, RowToDict(row)) ELSE st.batch},
             flush \in {(st.i + 1) % chunk = 0} })

\* Lines 63-64: the rest of the batch after the last row.
FallbackFinish(st, na_text) ==
    [st EXCEPT !.tb = IF st.batch # << >>
                      THEN UpdateCounts(st.tb, DataFrame(st.batch), na_text)
                      ELSE @]

RECURSIVE FallbackRun(_, _, _, _)
\* Lines 55-64 over a whole file rs.
FallbackRun(st, rs, chunk, na_text) ==
    IF rs = << >> THEN FallbackFinish(st, na_text)
    ELSE Only({ FallbackRun(nx, Tail(rs), chunk, na_text)
                : nx \in {FallbackStep(st, rs[1], chunk, na_text)} })

RECURSIVE DirectRun(_, _, _, _)
\* Lines 47-51: read_csv hands out the rows chunk rows at a time.
DirectRun(tb, rs, chunk, na_text) ==
    IF rs = << >> THEN tb
    ELSE Only({ DirectRun(nx, SubSeq(rs, Min(chunk, Len(rs)) + 1, Len(rs)), chunk, na_text)
                : nx \in {UpdateCounts(tb, DataFrame(Take(rs, chunk)), na_text)} })

\* FirewallAnalyzer.consume_csv on an analyzer whose stores are tb: the
\* stores after a whole file rs was read with the given chunksize.
ConsumeCsv(tb, is_direct, rs, chunk, na_text) ==
    IF is_direct THEN DirectRun(tb, rs, chunk, na_text)
    ELSE FallbackRun([tb |-> tb, batch |-> << >>, bad |-> 0, i |-> 0],
                     rs, chunk, na_text).tb

(* ------------------------------- the state ----------------------------- *)

VARIABLES
    src_ip_counts,  \* self._src_ip_counts
    dst_ip_counts,  \* self._dst_ip_counts
    src_ports,      \* self._src_ports
    dst_ports,      \* self._dst_ports
    bad_rows,       \* self._bad_rows
    ip_thresh,      \* self.ip_thresh, in percent
    top_n,          \* self.top_n
    na_text,        \* astype(str) of the installed pandas renders NaN as 'nan'
    pc,             \* "new", inside consume_csv ("direct", "fallback"), "done"
                    \* (consume_csv returned), "raised" (consume_csv raised)
    direct,         \* consume_csv: the header names the four columns
    chunksize,      \* consume_csv: the chunksize argument
    i,              \* consume_csv: the row number of enumerate(rdr, 1)
    batch,          \* consume_csv: the pending batch
    rows,           \* the rows read from the file so far
    prior,          \* the four stores when consume_csv was last entered
    calls,          \* the number of consume_csv calls made
    nread,          \* the number of rows the earlier calls read
    top,            \* what top_table() returned last since consume_csv was entered
    call            \* what rule_suggestions() returned or raised last since then

stores == << src_ip_counts, dst_ip_counts, src_ports, dst_ports >>

vars == << src_ip_counts, dst_ip_counts, src_ports, dst_ports, bad_rows, ip_thresh,
           top_n, na_text, pc, direct, chunksize, i, batch, rows, prior, calls, nread,
           top, call >>

Stores == [srcip |-> src_ip_counts, dstip |-> dst_ip_counts,
           srcport |-> src_ports, dstport |-> dst_ports]

SetStores(tb) ==
    /\ src_ip_counts' = tb["srcip"]
    /\ dst_ip_counts' = tb["dstip"]
    /\ src_ports' = tb["srcport"]
    /\ dst_ports' = tb["dstport"]

\* Analyzers tried: the constructor's defaults and a lower threshold, on a
\* pandas whose astype(str) writes a missing cell as 'nan'; the defaults on a
\* pandas that keeps the cell missing.
Configs ==
    { [ip_thresh |-> 90, top_n |-> 10, na_text |-> TRUE],
      [ip_thresh |-> 50, top_n |-> 1,  na_text |-> TRUE],
      [ip_thresh |-> 90, top_n |-> 10, na_text |-> FALSE] }

\* Arguments of rule_suggestions tried: the defaults and two variations.
RuleArgs ==
    { [max_ports |-> 3, min_port_share |-> 1,  max_rules |-> 10, target_coverage |-> 80],
      [max_ports |-> 1, min_port_share |-> 60, max_rules |-> 1,  target_coverage |-> 100],
      [max_ports |-> 3, min_port_share |-> 1,  max_rules |-> 0,  target_coverage |-> 80] }

NoResult == [tag |-> "none"]

\* No call of the analyzer is running: consume_csv and the queries can be
\* called.
Idle == pc \in {"new", "done", "raised"}

\* A csv row with a cell in it: read_csv(nrows=0) skips the blank lines.
HasNonBlank(rs) == \E j \in 1..Len(rs) : rs[j] # << >>

\* FirewallAnalyzer.__init__.
Init ==
    /\ src_ip_counts = << >>
    /\ dst_ip_counts = << >>
    /\ src_ports = << >>
    /\ dst_ports = << >>
    /\ bad_rows = 0
    /\ \E cfg \in Configs :
          ip_thresh = cfg.ip_thresh /\ top_n = cfg.top_n /\ na_text = cfg.na_text
    /\ pc = "new"
    /\ direct = FALSE
    /\ chunksize = 1
    /\ i = 0
    /\ batch = << >>
    /\ rows = << >>
    /\ prior = EmptyTables
    /\ calls = 0
    /\ nread = 0
    /\ top = NoResult
    /\ call = NoResult

\* Line 43 on a file without a non-blank line: read_csv raises
\* EmptyDataError and nothing was read or counted.
ConsumeCsvEmpty ==
    /\ Idle
    /\ calls < MaxCalls
    /\ calls' = calls + 1
    /\ pc' = "raised"
    /\ UNCHANGED << stores, bad_rows, ip_thresh, top_n, na_text, direct, chunksize, i,
                    batch, rows, prior, nread, top, call >>

\* Lines 43-46 and 54: consume_csv, on a new analyzer or one that has read
\* files before, reads the header and picks the path; the counts go on top of
\* the stores as they are.  A file of the key=value path has a non-blank row.
ConsumeCsvOpen ==
    /\ Idle
    /\ calls < MaxCalls
    /\ \E d \in BOOLEAN, c \in 1..MaxChunk :
          /\ d \/ nread + Len(rows) < MaxRows
          /\ direct' = d
          /\ chunksize' = c
          /\ pc' = IF d THEN "direct" ELSE "fallback"
    /\ calls' = calls + 1
    /\ nread' = nread + Len(rows)
    /\ rows' = << >>
    /\ i' = 0
    /\ batch' = << >>
    /\ prior' = Stores
    /\ top' = NoResult
    /\ call' = NoResult
    /\ UNCHANGED << stores, bad_rows, ip_thresh, top_n, na_text >>

\* Lines 50-51: one chunk of the direct path.  A chunk shorter than chunksize
\* is the last one.
DirectChunk ==
    /\ pc = "direct"
    /\ \E n \in 1..chunksize :
          /\ nread + Len(rows) + n <= MaxRows
          /\ \E chunk \in [1..n -> DirectRows] :
                /\ \E tb \in {UpdateCounts(Stores, DataFrame(chunk), na_text)} :
                      SetStores(tb)
                /\ rows' = rows \o chunk
          /\ pc' = IF n < chunksize THEN "done" ELSE "direct"
    /\ UNCHANGED << bad_rows, ip_thresh, top_n, na_text, direct, chunksize, i, batch,
                    prior, calls, nread, top, call >>

\* The direct path's iterator is exhausted.
DirectEnd ==
    /\ pc = "direct"
    /\ pc' = "done"
    /\ UNCHANGED << stores, bad_rows, ip_thresh, top_n, na_text, direct, chunksize, i,
                    batch, rows, prior, calls, nread, top, call >>

\* Lines 55-62: one row of the key=value path.
FallbackRow ==
    /\ pc = "fallback"
    /\ nread + Len(rows) < MaxRows
    /\ \E row \in FallbackRows :
          /\ nread + Len(rows) + 1 = MaxRows => HasNonBlank(Append(rows, row))
          /\ \E st \in {FallbackStep([tb |-> Stores, batch |-> batch, bad |-> bad_rows,
                                      i |-> i], row, chunksize, na_text)} :
                /\ SetStores(st.tb)
                /\ batch' = st.batch
                /\ bad_rows' = st.bad
                /\ i' = st.i
                /\ rows' = Append(rows, row)
    /\ UNCHANGED << ip_thresh, top_n, na_text, pc, direct, chunksize, prior, calls,
                    nread, top, call >>

\* Lines 63-64: end of the file on the key=value path.
FallbackEnd ==
    /\ pc = "fallback"
    /\ HasNonBlank(rows)
    /\ \E st \in {FallbackFinish([tb |-> Stores, batch |-> batch, bad |-> bad_rows,
                                   i |-> i], na_text)} : SetStores(st.tb)
    /\ pc' = "done"
    /\ UNCHANGED << bad_rows, ip_thresh, top_n, na_text, direct, chunksize, i, batch,
                    rows, prior, calls, nread, top, call >>

\* FirewallAnalyzer.top_table.
TopTable ==
    /\ Idle
    /\ top' = [tag |-> "top", table |-> TopTableOf(Stores, top_n)]
    /\ UNCHANGED << stores, bad_rows, ip_thresh, top_n, na_text, pc, direct, chunksize,
                    i, batch, rows, prior, calls, nread, call >>

\* rule_suggestions with line 139 sorting self._dst_ports in place instead of
\* sorting a copy.
RuleSuggestionsSortsInPlace ==
    /\ Idle
    /\ \E p \in RuleArgs : call' = RuleSuggestionsOf(Stores, ip_thresh, p)
    /\ dst_ports' = SortDesc(dst_ports)
    /\ UNCHANGED << src_ip_counts, dst_ip_counts, src_ports, bad_rows, ip_thresh,
                    top_n, na_text, pc, direct, chunksize, i, batch, rows, prior,
                    calls, nread, top >>

\* FirewallAnalyzer.rule_suggestions.
RuleSuggestions ==
    /\ Idle
    /\ \E p \in RuleArgs : call' = RuleSuggestionsOf(Stores, ip_thresh, p)
    /\ UNCHANGED << stores, bad_rows, ip_thresh, top_n, na_text, pc, direct, chunksize,
                    i, batch, rows, prior, calls, nread, top >>

Next ==
    \/ ConsumeCsvEmpty
    \/ ConsumeCsvOpen
    \/ DirectChunk
    \/ DirectEnd
    \/ FallbackRow
    \/ FallbackEnd
    \/ TopTable
    \/ RuleSuggestions

Spec == Init /\ [][Next]_vars

(* ======================= the claims, one by one ======================== *)

\* The record of a row: its cells by column (direct path), or what
\* _row_to_dict extracts from it (key=value path).
RecordOf(row) == IF direct THEN row ELSE RowToDict(row)

\* The 'Allow' rules of a returned list.
RulesOf(c) == SelectSeq(c.suggestions, LAMBDA e : e.kind = "rule")

RECURSIVE SumOver(_, _)
\* The total count of the keys of S in table s.
SumOver(s, S) ==
    IF s = << >> THEN 0
    ELSE (IF s[1].k \in S THEN s[1].c ELSE 0) + SumOver(Tail(s), S)

\* A bare address (no '/'), IPv4 or IPv6, that ipaddress can parse.
IsAddress(ip) == \E r \in {ReadAddress(ip)} : r.ver # 0 /\ r.plen = -1

\* ip_address(ip) in net.
AddressIn(ip, net) ==
    \E r \in {ReadAddress(ip)} :
        /\ r.ver = net.ver
        /\ AddrLeq(network_address(net), r.grp)
        /\ AddrLeq(r.grp, broadcast_address(net))

(* C1: at the end of consume_csv the four tables, as sets of (key, count)   *)
(* pairs, are the ones any other chunksize would have produced from the     *)
(* same rows on the same stores.                                             *)
C1_ChunkIndependent ==
    pc = "done" =>
        \A c \in 1..MaxChunk :
            \E other \in {ConsumeCsv(prior, direct, rows, c, na_text)} :
                \A col \in Range(Columns) : Pairs(Stores[col]) = Pairs(other[col])

(* C2: the count of every key k of every category is the number of         *)
(* ingested records that have the field with value k, a record without the  *)
(* field counting under no key: every consume_csv adds to the count of k    *)
(* the number of its records that have the field with value k.              *)
C2_CountsArePresentValues ==
    pc = "done" =>
        \A col \in Range(Columns) : \A k \in Range(KeyOrder) :
            CountOf(Stores[col], k) - CountOf(prior[col], k) =
                Cardinality({j \in 1..Len(rows) :
                                \E rec \in {RecordOf(rows[j])} :
                                    col \in DOMAIN rec /\ rec[col] = k})

\* elems (with coverage cov) is the smallest selection of keys of s, taken
\* in descending-count order, whose share of the total reaches t percent.
IsSmallestDescendingSelection(s, t, elems, cov) ==
    IF s = << >> THEN elems = << >> /\ cov = Zero
    ELSE \E S \in {Range(elems)}, total \in {SumC(s)} :
            /\ S # {} /\ S \subseteq Range(Keys(s)) /\ Cardinality(S) = Len(elems)
            /\ \A k \in S : \A j \in Range(Keys(s)) \ S : CountOf(s, k) >= CountOf(s, j)
            /\ ShareAtLeast(SumOver(s, S), total, t) \/ S = Range(Keys(s))
            /\ \A k \in S : ~ ShareAtLeast(SumOver(s, S) - CountOf(s, k), total, t)
            /\ cov = << SumOver(s, S), total >>

(* C3: the selection rule_suggestions gets from _threshold_subset for the   *)
(* source table is the smallest set of keys in descending-count order whose *)
(* share reaches ip_thresh, with that share as coverage; empty table: no    *)
(* keys and coverage 0.                                                      *)
C3_SmallestDescendingSelection ==
    call.tag = "ok" =>
        IsSmallestDescendingSelection(src_ip_counts, ip_thresh, call.src_ips, call.src_cov)

(* C4: for every non-empty list of parseable addresses that _threshold_     *)
(* subset can hand to _supernet (a leading part of the source or of the     *)
(* destination table's keys), _supernet returns a network, and every        *)
(* address of the list is a member of it.                                    *)
C4_SupernetContainsInputs ==
    \A s \in {src_ip_counts, dst_ip_counts} : \A n \in 1..Len(s) :
        \E ips \in {Take(Keys(s), n)} :
            (\A j \in 1..n : IsAddress(ips[j])) =>
                \E net \in {Supernet(ips)} :
                    /\ net.tag = "net"
                    /\ \A j \in 1..n : AddressIn(ips[j], net)

\* Thresholds (percent) and prefix floors _best_network is tried with.
TriedThresholds == {50, 90, 100}
TriedFloors == {0, DstMinPrefix, SrcMinPrefix, 32}

\* The prefix lengths a source scope names: that of its network, or those of
\* the listed keys that are written as a network (line 92 reads a key with a
\* '/' as one).
SourcePrefixes(src) ==
    IF src.kind = "net" THEN {prefixlen(src.net)}
    ELSE {ReadAddress(src.shown[j]).plen :
             j \in {x \in 1..Len(src.shown) :
                       \E r \in {ReadAddress(src.shown[x])} : r.ver # 0 /\ r.plen # -1}}

(* C5: for every table, threshold and floor m, _best_network returns a      *)
(* network of prefix length >= m or no network, and in both cases the       *)
(* coverage of the threshold subset; so no emitted rule has a source        *)
(* network broader than /21 or a destination network broader than /20.      *)
C5_PrefixFloor ==
    /\ (Idle /\ top = NoResult /\ call = NoResult) =>
          \A s \in {src_ip_counts, dst_ip_counts} :
          \A t \in TriedThresholds : \A m \in TriedFloors :
              \E b \in {BestNetwork(s, t, m)} :
                  /\ b.tag = "ok"
                  /\ b.net.tag \in {"net", "None"}
                  /\ b.net.tag = "net" => prefixlen(b.net) >= m
                  /\ b.cov = IF s = << >> THEN Zero
                             ELSE << SumOver(s, Range(b.ips)), SumC(s) >>
                  /\ s # << >> => \/ ShareAtLeast(b.cov[1], b.cov[2], t)
                                  \/ b.cov[1] = b.cov[2]
    /\ call.tag = "ok" =>
          \A j \in 1..Len(call.suggestions) :
              \E e \in {call.suggestions[j]} :
                  e.kind = "rule" =>
                      /\ prefixlen(e.dst) >= DstMinPrefix
                      /\ \A n \in SourcePrefixes(e.src) : n >= SrcMinPrefix

(* C6: rule_suggestions never raises and returns a non-empty list, whatever *)
(* the tables hold.                                                          *)
C6_NeverRaises ==
    /\ call.tag # "TypeError"
    /\ call.tag = "ok" => call.suggestions # << >>

(* C7: when a destination port qualifies, the result holds an anomaly note  *)
(* exactly when some destination port has a count below 5; the note lists   *)
(* at most 10 ports and carries the ellipsis mark only if more than 10      *)
(* ports are that rare.                                                      *)
C7_AnomalyNote ==
    (call.tag = "ok" /\ call.ports # << >>) =>
        \E rare \in {{e \in Range(dst_ports) : e.c < RareBelow}},
           notes \in {SelectSeq(call.suggestions, LAMBDA e : e.kind = "rare")} :
            /\ Len(notes) = IF rare = {} THEN 0 ELSE 1
            /\ \A j \in 1..Len(notes) :
                  /\ Len(notes[j].ports) <= RareShown
                  /\ Range(notes[j].ports) \subseteq {e.k : e \in rare}
                  /\ notes[j].ellipsis => Cardinality(rare) > RareShown

(* C8: top_table and rule_suggestions leave the four tables and the bad-row *)
(* counter as they were, and a top_table repeated with no ingestion in      *)
(* between returns what the one before returned.                            *)
C8_QueriesReadOnly ==
    [][(Idle /\ Idle') =>
          /\ UNCHANGED << src_ip_counts, dst_ip_counts, src_ports, dst_ports, bad_rows >>
          /\ top # NoResult => top' = top]_vars

\* Both queries have returned on tables an in-place sort would have changed.
C8_Witness ==
    /\ pc = "done"
    /\ top # NoResult
    /\ call.tag = "ok"
    /\ Len(dst_ports) >= 2
    /\ dst_ports # SortDesc(dst_ports)
    /\ Take(SortDesc(dst_ports), top_n) = top.table["dstport"]

(* C9: the clusters are visited in descending weight, the result holds at   *)
(* most max_rules rules, none of them emitted once the covered share had    *)
(* reached target_coverage, and no two for the same destination network.    *)
C9_EmissionStops ==
    call.tag = "ok" =>
        \E rules \in {RulesOf(call)}, v \in {call.visited} :
            /\ Len(rules) <= call.p.max_rules
            /\ \A a, b \in 1..Len(v) : a < b => v[a].c >= v[b].c
            /\ \A a \in 1..Len(v) :
                  v[a].emitted => ~ ShareAtLeast(v[a].before, SumC(dst_ip_counts),
                                                 call.p.target_coverage)
            /\ \A a, b \in 1..Len(rules) : a # b => rules[a].dst # rules[b].dst

(* C10: on the key=value path a row that yields none of the four canonical  *)
(* keys adds one to the bad-row counter, adds no record to the batch and    *)
(* nothing to the tables (which change at most by the flush of the batch    *)
(* read before it); a row that yields a canonical key leaves the counter.   *)
C10_BadRowsCounted ==
    [][(pc = "fallback" /\ Len(rows') = Len(rows) + 1) =>
          \E row \in {rows'[Len(rows')]} :
              IF DOMAIN RowToDict(row) \cap Range(Columns) = {}
              THEN /\ bad_rows' = bad_rows + 1
                   /\ batch' \in {batch, << >>}
                   /\ Stores' \in {Stores, UpdateCounts(Stores, DataFrame(batch), na_text)}
              ELSE bad_rows' = bad_rows]_vars

====
